---- MODULE Spec2Model ----
(***************************************************************************)
(* Model of the invelion UHF RFID reader driver: the frame codec of        *)
(* protocol.rs (checksum, command serialisation, response parsing, tag     *)
(* record decoding) and the exchange session of lib.rs (send, start-byte   *)
(* resynchronisation, receive, the streaming loops).                       *)
(*                                                                         *)
(* Bytes are the integers 0..255; u8 arithmetic is written % 256.          *)
(* A Result<T> is a record: [tag |-> "Ok", val |-> v],                     *)
(* [tag |-> "Err", kind |-> k, msg |-> m, code |-> c] or, for a Rust       *)
(* panic (failed assert, index out of bounds), [tag |-> "Panic", at |-> s].*)
(* An Option is a sequence of length 0 (None) or 1 (Some).                 *)
(***************************************************************************)
EXTENDS Integers, Sequences, FiniteSets, TLC

VARIABLES
    fn,     \* codec: the function applied ("idle" before)
    arg,    \* codec: its argument
    ret,    \* codec: its return value
    script,         \* session: the chunks (frames, stray bytes) the transport delivers
    port,           \* session: the transport's input stream, all chunks in order
    pos,            \* session: number of bytes of port read so far
    avail,          \* session: number of bytes of port the transport has delivered so far
    frequency,      \* the argument the caller passes to measure_return_loss (0: never called)
    written,        \* session: the frames written to the transport, each with pos and avail at the write
    plan,           \* session: the public operations the caller will still invoke
    pc,             \* session: where the running call is
    op,             \* session: the public operation running (or last run)
    command_type,   \* receive(): the command type awaited
    len_byte,       \* receive_packet(): len, the length byte read
    response,       \* receive_packet(): the bytes of the frame read
    packet,         \* receive_packet(): the value from_bytes returned
    nread,          \* history: frames receive_packet has read in full during this call
    tags,           \* real_time_inventory(): the items decoded so far
    results,        \* read(): the results decoded so far
    result          \* the value the last call returned (None while none has)

\* ---------------------------------------------------------------- bounds

\* Longest byte sequence the checksum is applied to (besides the datasheet vectors).
MaxLen == 3
\* Longest data of the short commands handed to to_bytes.
MaxData == 2
\* Longest body (the bytes between opcode and checksum) of the frames handed to from_bytes.
MaxBody == 2
\* Largest length passed to command_has_response_code.
MaxFrameLen == 8
\* Most chunks (frames, stray bytes) in the input stream of a session.
MaxChunks == 3
\* Longest payload handed to InventoryItem::from_bytes on its own.
MaxItem == 5

\* ------------------------------------------------------ protocol constants

START_BYTE == 160

\* CommandType variants used by name (value = the variant's discriminant).
Reset == 112
GetFirmwareVersion == 114
GetWorkAntenna == 117
GetOutputPower == 119
GetReaderTemperature == 123
GetAntConnectionDetector == 99
GetRFPortReturnLoss == 126
Read == 129
SetAccessEPCMatch == 133
RealTimeInventory == 137

\* Every discriminant of enum CommandType.
CommandType ==
    { 112, 113, 114, 115, 116, 117, 118, 119, 120, 121, 122, 123,
      96, 97, 98, 99, 102, 103, 104, 105, 106, 126,
      128, 129, 130, 131, 132, 133, 134, 137, 138, 139, 140, 141, 142,
      176, 177, 178, 179, 180,
      144, 145, 146, 147 }

\* ResponseCode variants used by name.
Success == 16
Fail == 17
AntennaMissingError == 34
NoTagError == 54

\* Every discriminant of enum ResponseCode.
ResponseCode ==
    { 16, 17, 32, 33, 34, 35, 36, 37,
      49, 50, 51, 52, 53, 54, 55, 56 } \cup (64 .. 87)

None == << >>
Some(x) == << x >>

\* ------------------------------------------------------------ results

\* No value yet: a call that has not returned, a local not yet assigned.
NoValue == [tag |-> "None"]
Ok(v) == [tag |-> "Ok", val |-> v]
Panic(at) == [tag |-> "Panic", at |-> at]

\* Error::Io(e)
ErrorIo == [tag |-> "Err", kind |-> "Io", msg |-> "TimedOut", code |-> None]
\* Error::Program(String)
ErrorProgram(msg, code) == [tag |-> "Err", kind |-> "Program", msg |-> msg, code |-> code]

\* impl From<ResponseCode> for Error: every status maps to Error::Program
\* with the message "Invalid status response: {status}".
ErrorFromResponseCode(e) == ErrorProgram("Invalid status response", Some(e))

\* ------------------------------------------------------------ checksum

RECURSIVE checksum_sum(_, _)
\* The loop of calculate_checksum over data[1..i], in index order:
\* sum = sum.overflowing_add(data[i]).0
\* Sixteen iterations are taken per step where sixteen remain (the wrap of
\* sixteen wrapping additions is the wrap of their sum): frames of 250 bytes
\* and more are summed, and the evaluation depth has to stay small.
checksum_sum(data, i) ==
    IF i = 0 THEN 0
    ELSE IF i >= 16
    THEN (data[i - 15] + data[i - 14] + data[i - 13] + data[i - 12]
            + data[i - 11] + data[i - 10] + data[i - 9] + data[i - 8]
            + data[i - 7] + data[i - 6] + data[i - 5] + data[i - 4]
            + data[i - 3] + data[i - 2] + data[i - 1] + data[i]
            + checksum_sum(data, i - 16)) % 256
    ELSE (data[i] + checksum_sum(data, i - 1)) % 256

\* Bug variant: the one's complement, without the final +1.
calculate_checksum_NoIncrement(data) == 255 - checksum_sum(data, Len(data))

\* (!sum).overflowing_add(1).0
calculate_checksum(data) == ((255 - checksum_sum(data, Len(data))) + 1) % 256

\* ------------------------------------------- command_has_response_code

\* Bug variant: RealTimeInventory always carries a status byte.
command_has_response_code_Always(command, length) ==
    command \notin { GetFirmwareVersion, GetOutputPower, GetReaderTemperature,
                     GetRFPortReturnLoss, GetWorkAntenna, GetAntConnectionDetector }

command_has_response_code(command, length) ==
    CASE command = GetFirmwareVersion -> FALSE
      [] command = GetOutputPower -> FALSE
      [] command = GetReaderTemperature -> FALSE
      [] command = GetRFPortReturnLoss -> FALSE
      [] command = GetWorkAntenna -> FALSE
      [] command = GetAntConnectionDetector -> FALSE
      [] command = RealTimeInventory -> (IF length = 4 THEN TRUE ELSE FALSE)
      [] OTHER -> TRUE

\* ------------------------------------------------------ Command::to_bytes

\* A Command is [address, command, data].
to_bytes(self) ==
    LET pkt_len == Len(self.data) + 3
        pkt == << START_BYTE, pkt_len % 256, self.address, self.command >> \o self.data
    IN  Append(pkt, calculate_checksum(pkt))

\* ---------------------------------------------------- Response::from_bytes

\* data[i] with Rust's 0-based index.
at(data, i) == data[i + 1]
\* data[a..b] with Rust's 0-based half-open range (a <= b <= len).
slice(data, a, b) == SubSeq(data, a + 1, b)

\* `?` on the TryFromPrimitiveError of CommandType::try_from / ResponseCode::try_from.
ErrorFromTryFromPrimitive(byte) == ErrorProgram("TryFromPrimitiveError", Some(byte))

\* The checksum comparison of from_bytes: the checksum of all but the last
\* byte against the last byte.
checksum_matches(data) ==
    LET len == Len(data)
    IN  at(data, len - 1) = calculate_checksum(slice(data, 0, len - 1))

\* Response::raise_error
raise_error(self) ==
    IF self.status = Some(Success) THEN Ok(self)
    ELSE IF self.status = None THEN Ok(self)
    ELSE ErrorFromResponseCode(self.status[1])

\* Bug variant: the payload starts right after the opcode even when a status
\* byte was decoded (data_offset stays 4).
response_code_of_OffsetFour(data) ==
    LET len == Len(data)
    IN  IF command_has_response_code(at(data, 3), len)
        THEN [data_offset |-> 4,
              response_code |->
                  IF len < 5 THEN Panic("index out of bounds: data[4]")
                  ELSE IF at(data, 4) \in ResponseCode THEN Ok(Some(at(data, 4)))
                  ELSE ErrorFromTryFromPrimitive(at(data, 4))]
        ELSE [data_offset |-> 4, response_code |-> Ok(None)]

\* The status decision of from_bytes: data_offset and response_code.
\* response_code is None, Some(code), or the failure of data[4] / try_from.
response_code_of(data) ==
    LET len == Len(data)
    IN  IF command_has_response_code(at(data, 3), len)
        THEN [data_offset |-> 5,
              response_code |->
                  IF len < 5 THEN Panic("index out of bounds: data[4]")
                  ELSE IF at(data, 4) \in ResponseCode THEN Ok(Some(at(data, 4)))
                  ELSE ErrorFromTryFromPrimitive(at(data, 4))]
        ELSE [data_offset |-> 4, response_code |-> Ok(None)]

\* Bug variant: a byte that is no CommandType discriminant is decoded as Reset.
from_bytes_DefaultOpcode(data) ==
    LET len == Len(data)
    IN  IF len < 1 THEN Panic("index out of bounds: data[0]")
        ELSE IF at(data, 0) # START_BYTE THEN Panic("assert_eq!(data[0], START_BYTE)")
        ELSE IF len < 2 THEN Panic("index out of bounds: data[1]")
        ELSE IF at(data, 1) # len - 2 THEN Panic("assert_eq!(data[1], data.len() - 2)")
        ELSE IF ~checksum_matches(data)
        THEN Panic("index out of bounds: data[len]")
        ELSE IF len < 4 THEN Panic("index out of bounds: data[3]")
        ELSE LET rc == response_code_of(data)
             IN  IF rc.response_code.tag # "Ok" THEN rc.response_code
                 ELSE IF rc.data_offset > len - 1
                 THEN Panic("slice index starts after its end: data[data_offset..len-1]")
                 ELSE raise_error([address |-> at(data, 2),
                                   command |-> IF at(data, 3) \in CommandType
                                               THEN at(data, 3) ELSE Reset,
                                   status |-> rc.response_code.val,
                                   data |-> slice(data, rc.data_offset, len - 1)])

from_bytes(data) ==
    LET len == Len(data)
    IN  IF len < 1 THEN Panic("index out of bounds: data[0]")
        ELSE IF at(data, 0) # START_BYTE THEN Panic("assert_eq!(data[0], START_BYTE)")
        ELSE IF len < 2 THEN Panic("index out of bounds: data[1]")
        ELSE IF at(data, 1) # len - 2 THEN Panic("assert_eq!(data[1], data.len() - 2)")
        ELSE IF ~checksum_matches(data)
             \* the error message is formatted from data[len], one past the end
        THEN Panic("index out of bounds: data[len]")
        ELSE IF len < 4 THEN Panic("index out of bounds: data[3]")
        ELSE IF at(data, 3) \notin CommandType THEN ErrorFromTryFromPrimitive(at(data, 3))
        ELSE LET rc == response_code_of(data)
             IN  IF rc.response_code.tag # "Ok" THEN rc.response_code
                 ELSE IF rc.data_offset > len - 1
                 THEN Panic("slice index starts after its end: data[data_offset..len-1]")
                 ELSE raise_error([address |-> at(data, 2),
                                   command |-> at(data, 3),
                                   status |-> rc.response_code.val,
                                   data |-> slice(data, rc.data_offset, len - 1)])

\* ------------------------------------------------- frequency and RSSI

\* An f32 frequency is held as a whole number of eighths of a MHz: every
\* value the conversions compute from such an input is exact in f32, and the
\* grid is finer than the 0.5 MHz step the conversions work in.
MHz(x) == 8 * x
\* 0.5 * n MHz
HalfMHz(n) == 4 * n

\* Bug variant: the band boundary taken at freq <= 7.
convert_to_frequency_BandAt8(freq) ==
    IF freq <= 7 THEN MHz(865) + HalfMHz(freq) ELSE MHz(902) + HalfMHz(freq - 7)

\* convert_to_frequency: 865. + 0.5 * freq, or 902. + 0.5 * (freq - 7) from 7 on.
convert_to_frequency(freq) ==
    IF freq < 7 THEN MHz(865) + HalfMHz(freq) ELSE MHz(902) + HalfMHz(freq - 7)

\* Bug variant: the step index rounded up instead of truncated.
convert_from_frequency_RoundUp(f) ==
    IF f >= MHz(865) /\ f <= MHz(868)
    THEN Ok((f - MHz(865) + HalfMHz(1) - 1) \div HalfMHz(1))
    ELSE IF f >= MHz(902) /\ f <= MHz(928)
    THEN Ok((f - MHz(902) + HalfMHz(1) - 1) \div HalfMHz(1) + 7)
    ELSE ErrorProgram("Invalid frequency", Some(f))

\* Bug variant: the second band's index without its offset of 7.
convert_from_frequency_NoOffset(f) ==
    IF f >= MHz(865) /\ f <= MHz(868)
    THEN Ok((f - MHz(865)) \div HalfMHz(1))
    ELSE IF f >= MHz(902) /\ f <= MHz(928)
    THEN Ok((f - MHz(902)) \div HalfMHz(1))
    ELSE ErrorProgram("Invalid frequency", Some(f))

\* convert_from_frequency(frequency = f): ((frequency - 865.) / 0.5) as u8, the cast
\* truncating the quotient (which is never negative and at most 52 here);
\* the error message holds the frequency.
convert_from_frequency(f) ==
    IF f >= MHz(865) /\ f <= MHz(868)
    THEN Ok((f - MHz(865)) \div HalfMHz(1))
    ELSE IF f >= MHz(902) /\ f <= MHz(928)
    THEN Ok((f - MHz(902)) \div HalfMHz(1) + 7)
    ELSE ErrorProgram("Invalid frequency", Some(f))

\* x as i8: the two's-complement wrap of an integer to -128..127.
as_i8(x) == ((x + 128) % 256) - 128

\* convert_rssi: (rssi as i16 - 129) as i8, or - 130 up to 89.
convert_rssi(rssi) ==
    IF rssi > 89 THEN as_i8(rssi - 129) ELSE as_i8(rssi - 130)

\* ---------------------------------------------------- tag record decoders

\* `?` on a BitReaderError (a read past the end of the bytes).
ErrorFromBitReaderError == ErrorProgram("BitReaderError::NotEnoughData", None)

\* Bug variant: the antenna taken from the top 2 bits and the frequency index
\* from the bottom 6.
InventoryItem_from_bytes_AntennaFirst(data) ==
    LET n == Len(data)
    IN  IF n < 1 THEN Panic("index out of bounds: data[0]")
        ELSE IF n < 3 THEN Panic("range end index 3 out of range: data[1..3]")
        ELSE IF 3 > n - 1 THEN Panic("slice index starts after its end: data[3..len-1]")
        ELSE Ok([frequency |-> convert_to_frequency(at(data, 0) % 64),
                 antenna |-> at(data, 0) \div 64,
                 pc |-> slice(data, 1, 3),
                 epc |-> slice(data, 3, n - 1),
                 rssi |-> convert_rssi(at(data, n - 1))])

\* InventoryItem::from_bytes: the BitReader over the first byte gives its top
\* 6 bits, then its bottom 2.
InventoryItem_from_bytes(data) ==
    LET n == Len(data)
    IN  IF n < 1 THEN Panic("index out of bounds: data[0]")
        ELSE IF n < 3 THEN Panic("range end index 3 out of range: data[1..3]")
        ELSE IF 3 > n - 1 THEN Panic("slice index starts after its end: data[3..len-1]")
        ELSE Ok([frequency |-> convert_to_frequency(at(data, 0) \div 4),
                 antenna |-> at(data, 0) % 4,
                 pc |-> slice(data, 1, 3),
                 epc |-> slice(data, 3, n - 1),
                 rssi |-> convert_rssi(at(data, n - 1))])

\* BitReader::read_u32(32) on four whole bytes, most significant first. A u32
\* runs to 2^32 - 1, so the value hi * 65536 + lo is kept as its two 16-bit
\* halves.
read_u32(b3, b2, b1, b0) == [hi |-> b3 * 256 + b2, lo |-> b1 * 256 + b0]

\* InventoryResult::from_bytes: 8 + 16 + 32 bits read most significant first.
InventoryResult_from_bytes(data, items) ==
    IF Len(data) < 7 THEN ErrorFromBitReaderError
    ELSE Ok([items |-> items,
             antenna |-> at(data, 0),
             read_rate |-> at(data, 1) * 256 + at(data, 2),
             total_read |-> read_u32(at(data, 3), at(data, 4), at(data, 5), at(data, 6))])

\* ReadResult::from_bytes: (tag_count, packet). The reply's payload opens with
\* the 16-bit tag count; the rest is the tag's read outcome.
ReadResult_from_bytes(data) ==
    IF Len(data) < 2 THEN ErrorFromBitReaderError
    ELSE Ok([tag_count |-> at(data, 0) * 256 + at(data, 1),
             packet |-> slice(data, 2, Len(data))])

\* ------------------------------------------------- inputs of the codec

\* Byte values the checksum inputs are drawn from (both ends, the sign bit,
\* the start byte).
SampleBytes == { 0, 1, 127, 128, 160, 255 }

RECURSIVE SeqsUpTo(_, _)
\* Every sequence over S of length 0..n.
SeqsUpTo(S, n) ==
    IF n = 0 THEN { << >> }
    ELSE LET shorter == SeqsUpTo(S, n - 1)
         IN  shorter \cup { Append(q, x) : q \in { r \in shorter : Len(r) = n - 1 }, x \in S }

\* The vectors of test_checksum.
ChecksumVectors ==
    { << 1, 2, 3, 4 >>, << 134, 200, 3, 253 >>, << 220, 4, 3, 30 >>,
      << 20, 45, 3, 30, 150, 230, 120 >>, << 160, 3, 1, 114 >> }

ChecksumInputs == SeqsUpTo(SampleBytes, MaxLen) \cup ChecksumVectors

\* Commands: short data, and data around the length byte's range.
LongDataLens == { 250, 252, 253, 255, 256 }
CommandData ==
    SeqsUpTo({ 0, 255 }, MaxData) \cup { [i \in 1 .. n |-> 7] : n \in LongDataLens }
Commands ==
    [address : { 0, 1, 255 }, command : CommandType, data : CommandData]

\* A frame as the reader module puts it on the wire.
DeviceFrame(address, opcode, body) ==
    LET pre == << START_BYTE, Len(body) + 3, address, opcode >> \o body
    IN  Append(pre, calculate_checksum(pre))

\* The frame with its trailing byte changed by d (1 <= d <= 255).
Corrupt(frame, d) ==
    [frame EXCEPT ![Len(frame)] = (frame[Len(frame)] + d) % 256]

\* Bytes of response bodies: Success, two failure statuses, values that are no status.
BodyBytes == { 0, Success, AntennaMissingError, NoTagError, 255 }
\* A byte that is no CommandType discriminant.
UnknownOpcode == CHOOSE b \in 0 .. 255 : b \notin CommandType

\* Bytes that are no CommandType discriminant: below, between and above them.
UnknownOpcodes == { b \in { 0, 95, 124, 143, 255 } : b \notin CommandType }

WellFormedFrames ==
    { DeviceFrame(1, opcode, body) :
        opcode \in CommandType \cup UnknownOpcodes, body \in SeqsUpTo(BodyBytes, MaxBody) }

\* Frames too short to hold address, opcode and checksum, with a correct trailing checksum.
ShortFrames ==
    { << START_BYTE, 1, calculate_checksum(<< START_BYTE, 1 >>) >> }
    \cup { LET pre == << START_BYTE, 2, a >> IN Append(pre, calculate_checksum(pre)) : a \in 0 .. 255 }

BadChecksumFrames ==
    { Corrupt(f, d) : f \in WellFormedFrames \cup ShortFrames, d \in { 1, 128 } }
    \cup { << START_BYTE, 0 >> }

\* Byte sequences that break the framing: nothing at all, a first byte that
\* is not the start byte, a length byte that is one more or one less than the
\* number of bytes that follow it.
MisframedInputs ==
    { << >>, << 0 >>, << START_BYTE >> }
    \cup { [f EXCEPT ![1] = b] : f \in { DeviceFrame(1, Reset, << Success >>) }, b \in { 0, 161 } }
    \cup { [f EXCEPT ![2] = f[2] + d] : f \in { DeviceFrame(1, Reset, << Success >>) }, d \in { -1, 1 } }

\* Frequencies in eighths of a MHz: both bands with a MHz on either side,
\* and values far below, between and far above the bands.
FrequencyInputs ==
    (MHz(864) .. MHz(869)) \cup (MHz(901) .. MHz(929))
    \cup { 0 - MHz(1), 0, MHz(860), MHz(885), MHz(2000) }

\* Payloads handed to InventoryItem::from_bytes: every length from 0 on, bytes
\* with different top-6 and bottom-2 bits.
ItemBytes == { 0, 3, 130, 255 }
ItemInputs == SeqsUpTo(ItemBytes, MaxItem)

FrameInputs == WellFormedFrames \cup ShortFrames \cup BadChecksumFrames \cup MisframedInputs

\* ------------------------------------------------ the codec specification

codecVars == << fn, arg, ret >>
sessionVars ==
    << script, port, pos, avail, frequency, written, plan, pc, op, command_type, len_byte, response,
       packet, nread, tags, results, result >>
vars == << codecVars, sessionVars >>

\* No codec function applied yet.
CodecIdle ==
    /\ fn = "idle"
    /\ arg = << >>
    /\ ret = << >>

\* A Reader just constructed: nothing written, nothing read, no call made.
ReaderNew ==
    /\ pos = 0
    /\ written = << >>
    /\ pc = "idle"
    /\ op = "none"
    /\ command_type = 0
    /\ len_byte = 0
    /\ response = << >>
    /\ packet = NoValue
    /\ nread = 0
    /\ tags = << >>
    /\ results = << >>
    /\ result = NoValue

InitCodec ==
    /\ CodecIdle
    /\ script = << >>
    /\ port = << >>
    /\ avail = 0
    /\ plan = << >>
    /\ frequency = 0
    /\ ReaderNew

Apply_calculate_checksum ==
    /\ fn = "idle"
    /\ \E data \in ChecksumInputs :
          /\ fn' = "calculate_checksum"
          /\ arg' = data
          /\ ret' = calculate_checksum(data)
    /\ UNCHANGED sessionVars

Apply_command_has_response_code ==
    /\ fn = "idle"
    /\ \E command \in CommandType, length \in 0 .. MaxFrameLen :
          /\ fn' = "command_has_response_code"
          /\ arg' = << command, length >>
          /\ ret' = command_has_response_code(command, length)
    /\ UNCHANGED sessionVars

Apply_to_bytes ==
    /\ fn = "idle"
    /\ \E cmd \in Commands :
          /\ fn' = "to_bytes"
          /\ arg' = cmd
          /\ ret' = to_bytes(cmd)
    /\ UNCHANGED sessionVars

Apply_from_bytes ==
    /\ fn = "idle"
    /\ \E data \in FrameInputs :
          /\ fn' = "from_bytes"
          /\ arg' = data
          /\ ret' = from_bytes(data)
    /\ UNCHANGED sessionVars

Apply_convert_to_frequency ==
    /\ fn = "idle"
    /\ \E freq \in 0 .. 255 :
          /\ fn' = "convert_to_frequency"
          /\ arg' = freq
          /\ ret' = convert_to_frequency(freq)
    /\ UNCHANGED sessionVars

Apply_convert_from_frequency ==
    /\ fn = "idle"
    /\ \E f \in FrequencyInputs :
          /\ fn' = "convert_from_frequency"
          /\ arg' = f
          /\ ret' = convert_from_frequency(f)
    /\ UNCHANGED sessionVars

Apply_convert_rssi ==
    /\ fn = "idle"
    /\ \E rssi \in 0 .. 255 :
          /\ fn' = "convert_rssi"
          /\ arg' = rssi
          /\ ret' = convert_rssi(rssi)
    /\ UNCHANGED sessionVars

Apply_InventoryItem_from_bytes ==
    /\ fn = "idle"
    /\ \E data \in ItemInputs :
          /\ fn' = "InventoryItem_from_bytes"
          /\ arg' = data
          /\ ret' = InventoryItem_from_bytes(data)
    /\ UNCHANGED sessionVars

NextCodec ==
    \/ Apply_calculate_checksum
    \/ Apply_convert_rssi
    \/ Apply_InventoryItem_from_bytes
    \/ Apply_convert_from_frequency
    \/ Apply_convert_to_frequency
    \/ Apply_command_has_response_code
    \/ Apply_to_bytes
    \/ Apply_from_bytes

SpecCodec == InitCodec /\ [][NextCodec]_vars

\* ------------------------------------------------------ the session (lib.rs)

\* The address the Reader was constructed with.
ReaderAddress == 1

\* The public operations modelled, and the Command each one sends.
Ops == { "reset", "get_version", "real_time_inventory", "read" }

CommandOf(o) ==
    CASE o = "reset" ->
            [address |-> ReaderAddress, command |-> Reset, data |-> << >>]
      [] o = "get_version" ->
            [address |-> ReaderAddress, command |-> GetFirmwareVersion, data |-> << >>]
      [] o = "real_time_inventory" ->
            \* repeat = 255
            [address |-> ReaderAddress, command |-> RealTimeInventory, data |-> << 255 >>]
      [] o = "read" ->
            \* bank, start, length, then the 4-byte password
            [address |-> ReaderAddress, command |-> Read, data |-> << 2, 0, 4, 0, 0, 0, 0 >>]

\* Chunks of the input stream: a stray byte, and frames of the reader module.
StrayByte == << 0 >>
VersionFrame == DeviceFrame(ReaderAddress, GetFirmwareVersion, << 1, 2 >>)
ResetOkFrame == DeviceFrame(ReaderAddress, Reset, << Success >>)
ResetFailFrame == DeviceFrame(ReaderAddress, Reset, << Fail >>)
\* packed frequency/antenna byte, 2 bytes PC, EPC, RSSI
TagFrameA == DeviceFrame(ReaderAddress, RealTimeInventory, << 21, 48, 0, 226, 0, 17, 34, 70 >>)
TagFrameB == DeviceFrame(ReaderAddress, RealTimeInventory, << 130, 52, 0, 226, 0, 17, 35, 51, 95 >>)
\* antenna, read rate (2 bytes), total read (4 bytes)
SummaryFrame == DeviceFrame(ReaderAddress, RealTimeInventory, << 1, 1, 44, 0, 1, 0, 2 >>)
\* the failed inventory: length byte 4, one status byte
FailedInventoryFrame == DeviceFrame(ReaderAddress, RealTimeInventory, << AntennaMissingError >>)
NoTagFrame == DeviceFrame(ReaderAddress, Read, << NoTagError >>)
\* Success, tag count 1, the tag's data
ReadOkFrame == DeviceFrame(ReaderAddress, Read, << Success, 0, 1, 9 >>)
BadChecksumFrame == Corrupt(VersionFrame, 1)

StreamChunks ==
    { StrayByte, VersionFrame, ResetOkFrame, ResetFailFrame, TagFrameA, TagFrameB,
      SummaryFrame, FailedInventoryFrame, NoTagFrame, ReadOkFrame, BadChecksumFrame }

RECURSIVE Flatten(_)
\* The chunks of a script, one after the other.
Flatten(chunks) ==
    IF chunks = << >> THEN << >> ELSE Head(chunks) \o Flatten(Tail(chunks))

Init ==
    /\ CodecIdle
    /\ script \in SeqsUpTo(StreamChunks, MaxChunks)
    /\ port = Flatten(script)
    /\ avail = Len(port)
    /\ plan \in { << o >> : o \in Ops }
    /\ frequency = 0
    /\ ReaderNew

\* The call returns r to the caller (or unwinds, when r is a panic).
Return(r) ==
    /\ result' = r
    /\ pc' = IF r.tag = "Panic" THEN "panicked" ELSE "idle"

\* A read of the transport that finds no byte delivered: the read timeout, Error::Io.
TimedOut == Return(ErrorIo)

\* A public operation is called: it builds its Command and send() writes it.
Call ==
    /\ pc = "idle"
    /\ plan # << >>
    /\ Head(plan) \in Ops
    /\ op' = Head(plan)
    /\ plan' = Tail(plan)
    /\ command_type' = CommandOf(Head(plan)).command
    /\ written' = Append(written, [bytes |-> to_bytes(CommandOf(Head(plan))), pos |-> pos,
                                    avail |-> avail])
    /\ tags' = << >>
    /\ results' = << >>
    /\ len_byte' = 0
    /\ response' = << >>
    /\ packet' = NoValue
    /\ nread' = 0
    /\ pc' = "wait_for_start"
    /\ UNCHANGED << codecVars, script, port, pos, avail, frequency, result >>

\* Bug variant: no resynchronisation, the first byte read is taken as the start byte.
WaitForStart_NoResync ==
    /\ pc = "wait_for_start"
    /\ IF pos >= avail
       THEN TimedOut /\ UNCHANGED pos
       ELSE /\ pos' = pos + 1
            /\ pc' = "read_len"
            /\ UNCHANGED result
    /\ UNCHANGED << codecVars, script, port, avail, frequency, written, plan, op, command_type, len_byte,
                    response, packet, nread, tags, results >>

\* wait_for_start: one read_exact of one byte; any byte but START_BYTE is dropped.
WaitForStart ==
    /\ pc = "wait_for_start"
    /\ IF pos >= avail
       THEN TimedOut /\ UNCHANGED pos
       ELSE /\ pos' = pos + 1
            /\ pc' = IF port[pos + 1] = START_BYTE THEN "read_len" ELSE "wait_for_start"
            /\ UNCHANGED result
    /\ UNCHANGED << codecVars, script, port, avail, frequency, written, plan, op, command_type, len_byte,
                    response, packet, nread, tags, results >>

\* receive_packet: read_exact of the length byte.
ReadLen ==
    /\ pc = "read_len"
    /\ IF pos >= avail
       THEN TimedOut /\ UNCHANGED << pos, len_byte >>
       ELSE /\ pos' = pos + 1
            /\ len_byte' = port[pos + 1]
            /\ pc' = "read_body"
            /\ UNCHANGED result
    /\ UNCHANGED << codecVars, script, port, avail, frequency, written, plan, op, command_type,
                    response, packet, nread, tags, results >>

\* receive_packet: take(len).read_to_end(): the bytes at hand are consumed,
\* and the read fails when fewer than len are delivered before the timeout.
ReadBody ==
    /\ pc = "read_body"
    /\ IF avail - pos < len_byte
       THEN /\ pos' = avail
            /\ TimedOut
            /\ UNCHANGED << response, nread >>
       ELSE /\ pos' = pos + len_byte
            /\ response' = << START_BYTE, len_byte >> \o SubSeq(port, pos + 1, pos + len_byte)
            /\ nread' = nread + 1
            /\ pc' = "from_bytes"
            /\ UNCHANGED result
    /\ UNCHANGED << codecVars, script, port, avail, frequency, written, plan, op, command_type, len_byte,
                    packet, tags, results >>

\* receive_packet: Ok(Response::from_bytes(&response)?)
ParseResponse ==
    /\ pc = "from_bytes"
    /\ packet' = from_bytes(response)
    /\ IF packet'.tag = "Ok"
       THEN pc' = "receive" /\ UNCHANGED result
       ELSE Return(packet')
    /\ UNCHANGED << codecVars, script, port, pos, avail, frequency, written, plan, op, command_type, len_byte,
                    response, nread, tags, results >>

\* Bug variant: the command is written again when a packet of another command
\* type is dropped.
Receive_Resend ==
    /\ pc = "receive"
    /\ pc' = IF packet.val.command = command_type THEN "received" ELSE "wait_for_start"
    /\ written' = IF packet.val.command = command_type THEN written
                  ELSE Append(written, written[Len(written)])
    /\ UNCHANGED << codecVars, script, port, pos, avail, frequency, plan, op, command_type, len_byte,
                    response, packet, nread, tags, results, result >>

\* receive: a packet of another command type is dropped, the loop reads on.
Receive ==
    /\ pc = "receive"
    /\ pc' = IF packet.val.command = command_type THEN "received" ELSE "wait_for_start"
    /\ UNCHANGED << codecVars, script, port, pos, avail, frequency, written, plan, op, command_type, len_byte,
                    response, packet, nread, tags, results, result >>

\* reset, get_version: what the operation makes of the response of exchange().
ExchangeDone ==
    /\ pc = "received"
    /\ op \in { "reset", "get_version" }
    /\ LET data == packet.val.data
       IN  IF op = "reset" THEN Return(Ok(<< >>))
           ELSE IF Len(data) < 2 THEN Return(Panic("index out of bounds: response.data[1]"))
           ELSE Return(Ok(<< at(data, 0), at(data, 1) >>))
    /\ UNCHANGED << codecVars, script, port, pos, avail, frequency, written, plan, op, command_type, len_byte,
                    response, packet, nread, tags, results >>

\* Bug variant: a payload of exactly 8 bytes is taken for the summary (<= 8 for < 8).
InventoryStep_SummaryUpTo8 ==
    /\ pc = "received"
    /\ op = "real_time_inventory"
    /\ LET data == packet.val.data
           item == InventoryItem_from_bytes(data)
       IN  IF Len(data) <= 8
           THEN Return(InventoryResult_from_bytes(data, tags)) /\ UNCHANGED tags
           ELSE IF item.tag = "Ok"
           THEN /\ tags' = Append(tags, item.val)
                /\ pc' = "wait_for_start"
                /\ UNCHANGED result
           ELSE Return(item) /\ UNCHANGED tags
    /\ UNCHANGED << codecVars, script, port, pos, avail, frequency, written, plan, op, command_type, len_byte,
                    response, packet, nread, results >>

\* real_time_inventory: one turn of its loop on a received response.
InventoryStep ==
    /\ pc = "received"
    /\ op = "real_time_inventory"
    /\ LET data == packet.val.data
           item == InventoryItem_from_bytes(data)
       IN  IF Len(data) < 8
           THEN Return(InventoryResult_from_bytes(data, tags)) /\ UNCHANGED tags
           ELSE IF item.tag = "Ok"
           THEN /\ tags' = Append(tags, item.val)
                /\ pc' = "wait_for_start"
                /\ UNCHANGED result
           ELSE Return(item) /\ UNCHANGED tags
    /\ UNCHANGED << codecVars, script, port, pos, avail, frequency, written, plan, op, command_type, len_byte,
                    response, packet, nread, results >>

\* read: one turn of its loop on a received response.
ReadStep ==
    /\ pc = "received"
    /\ op = "read"
    /\ LET r == ReadResult_from_bytes(packet.val.data)
       IN  IF packet.val.status = Some(NoTagError)
           THEN Return(Ok(results)) /\ UNCHANGED results
           ELSE IF r.tag # "Ok"
           THEN Return(r) /\ UNCHANGED results
           ELSE /\ results' = Append(results, r.val.packet)
                /\ IF Len(results') = r.val.tag_count
                   THEN Return(Ok(results'))
                   ELSE pc' = "wait_for_start" /\ UNCHANGED result
    /\ UNCHANGED << codecVars, script, port, pos, avail, frequency, written, plan, op, command_type, len_byte,
                    response, packet, nread, tags >>

Next ==
    \/ Call
    \/ WaitForStart
    \/ ReadLen
    \/ ReadBody
    \/ ParseResponse
    \/ Receive
    \/ ExchangeDone
    \/ InventoryStep
    \/ ReadStep

Spec == Init /\ [][Next]_vars

\* The caller's thread runs a call it has made to its end: a step that can be
\* taken is taken. A read blocks no longer than the read timeout, so the step
\* of a read can always be taken, and no other thread takes part.
SpecFair == Spec /\ WF_vars(Next)

\* ------------------------------------------ measure_return_loss (lib.rs)

ReturnLossFrame == DeviceFrame(ReaderAddress, GetRFPortReturnLoss, << 12 >>)
\* a return-loss byte whose i8 value has no negation
ReturnLossFrameMin == DeviceFrame(ReaderAddress, GetRFPortReturnLoss, << 128 >>)

ReturnLossChunks == { StrayByte, ResetOkFrame, ReturnLossFrame, ReturnLossFrameMin }

\* The frequencies measure_return_loss is called with when it is checked
\* alone: the edges of both bands to an eighth of a MHz, the values of
\* test_convert_from_frequency, and values outside the bands.
CallFrequencies ==
    (MHz(864) .. MHz(869)) \cup (MHz(901) .. MHz(903)) \cup (MHz(927) .. MHz(929))
    \cup { MHz(909) + HalfMHz(1), MHz(922) + HalfMHz(1), 0, MHz(860), MHz(885), MHz(2000) }

InitReturnLoss ==
    /\ CodecIdle
    /\ script \in SeqsUpTo(ReturnLossChunks, MaxChunks)
    /\ port = Flatten(script)
    /\ avail = Len(port)
    /\ plan = << "measure_return_loss" >>
    /\ frequency \in CallFrequencies
    /\ ReaderNew

\* measure_return_loss is called: the Command is built, convert_from_frequency(frequency)?
\* returning before anything is sent; then send() writes it.
CallMeasureReturnLoss ==
    /\ pc = "idle"
    /\ plan # << >>
    /\ Head(plan) = "measure_return_loss"
    /\ LET index == convert_from_frequency(frequency)
           cmd == [address |-> ReaderAddress, command |-> GetRFPortReturnLoss,
                   data |-> << index.val >>]
       IN  IF index.tag = "Ok"
           THEN /\ written' = Append(written, [bytes |-> to_bytes(cmd), pos |-> pos,
                                               avail |-> avail])
                /\ pc' = "wait_for_start"
                /\ UNCHANGED result
           ELSE /\ Return(index)
                /\ UNCHANGED written
    /\ op' = Head(plan)
    /\ plan' = Tail(plan)
    /\ command_type' = GetRFPortReturnLoss
    /\ tags' = << >>
    /\ results' = << >>
    /\ len_byte' = 0
    /\ response' = << >>
    /\ packet' = NoValue
    /\ nread' = 0
    /\ UNCHANGED << codecVars, script, port, pos, avail, frequency >>

\* measure_return_loss: Ok(-(response.data[0] as i8)). The negation of -128
\* overflows: a panic in a build with overflow checks, -128 in one without.
ReturnLossDone ==
    /\ pc = "received"
    /\ op = "measure_return_loss"
    /\ LET data == packet.val.data
       IN  IF Len(data) < 1 THEN Return(Panic("index out of bounds: response.data[0]"))
           ELSE IF as_i8(at(data, 0)) = -128
           THEN \/ Return(Panic("attempt to negate with overflow"))
                \/ Return(Ok(-128))
           ELSE Return(Ok(0 - as_i8(at(data, 0))))
    /\ UNCHANGED << codecVars, script, port, pos, avail, frequency, written, plan, op,
                    command_type, len_byte, response, packet, nread, tags, results >>

NextReturnLoss ==
    \/ CallMeasureReturnLoss
    \/ WaitForStart
    \/ ReadLen
    \/ ReadBody
    \/ ParseResponse
    \/ Receive
    \/ ReturnLossDone

SpecReturnLoss == InitReturnLoss /\ [][NextReturnLoss]_vars

\* ------------------------------------------------- read alone (lib.rs)

\* Read replies: Success, the tag count (2 bytes), the tag's data.
ReadFrameOf(tag_count, payload) ==
    DeviceFrame(ReaderAddress, Read, << Success, 0, tag_count >> \o payload)

ReadFrames == { ReadFrameOf(n, << d >>) : n \in 1 .. 3, d \in { 7, 9 } }

ReadChunks == ReadFrames \cup { StrayByte, VersionFrame }

InitRead ==
    /\ CodecIdle
    /\ script \in SeqsUpTo(ReadChunks, MaxChunks)
    /\ port = Flatten(script)
    /\ avail = Len(port)
    /\ plan = << "read" >>
    /\ frequency = 0
    /\ ReaderNew

NextRead ==
    \/ Call
    \/ WaitForStart
    \/ ReadLen
    \/ ReadBody
    \/ ParseResponse
    \/ Receive
    \/ ReadStep

SpecRead == InitRead /\ [][NextRead]_vars

\* ------------------------------------- the session with late delivery

\* A tag frame whose EPC holds the value of the start byte.
TagFrameC == DeviceFrame(ReaderAddress, RealTimeInventory, << 21, 48, 0, 226, 160, 17, 34, 70 >>)

RetryChunks ==
    { VersionFrame, TagFrameA, TagFrameC, SummaryFrame, ResetFailFrame, ReadOkFrame,
      ReturnLossFrame }

\* The caller makes two calls, the second one after the first has returned.
RetryPlans ==
    { << a, b >> : a \in Ops, b \in { "get_version", "real_time_inventory" } }
    \cup { << "measure_return_loss", b >> : b \in { "get_version", "measure_return_loss" } }

\* The frequency of the measure_return_loss calls of a plan: one outside the
\* bands, one inside.
RetryFrequencies(p) ==
    IF \E i \in DOMAIN p : p[i] = "measure_return_loss"
    THEN { MHz(860), MHz(867) + HalfMHz(1) }
    ELSE { 0 }

\* How many bytes the transport delivers before it pauses for longer than the
\* read timeout: everything, or the first frame cut after its length byte or
\* before its last byte.
Pauses(chunks) ==
    { Len(Flatten(chunks)) }
    \cup (IF chunks = << >> THEN { } ELSE { 2, Len(chunks[1]) - 1 })

InitRetry ==
    /\ CodecIdle
    /\ script \in SeqsUpTo(RetryChunks, MaxChunks)
    /\ port = Flatten(script)
    /\ avail \in Pauses(script)
    /\ plan \in RetryPlans
    /\ frequency \in RetryFrequencies(plan)
    /\ ReaderNew

\* The transport delivers the bytes it held back, after a call has returned.
Deliver ==
    /\ pc = "idle"
    /\ op # "none"
    /\ avail < Len(port)
    /\ avail' = Len(port)
    /\ UNCHANGED << codecVars, script, port, pos, frequency, written, plan, pc, op, command_type,
                    len_byte, response, packet, nread, tags, results, result >>

NextRetry ==
    \/ Next
    \/ CallMeasureReturnLoss
    \/ ReturnLossDone
    \/ Deliver

SpecRetry == InitRetry /\ [][NextRetry]_vars

\* ------------------------------------------------------------- claims

RECURSIVE ByteSum(_, _)
\* The sum of the bytes of b at the indices of I, as an unbounded integer.
ByteSum(b, I) ==
    IF I = { } THEN 0
    ELSE LET i == CHOOSE j \in I : TRUE IN b[i] + ByteSum(b, I \ { i })

\* C1: calculate_checksum(b) = (256 - (sum of b mod 256)) mod 256, so the
\* 8-bit wrapping sum of b followed by its checksum is 0, b followed by its
\* checksum passes the parser's checksum comparison, and the five datasheet
\* vectors give 246, 178, 255, 170 and 0xEA.
C1_ChecksumNegatesWrappingSum ==
    fn = "calculate_checksum" =>
        /\ ret = (256 - (ByteSum(arg, DOMAIN arg) % 256)) % 256
        /\ (ByteSum(arg, DOMAIN arg) + ret) % 256 = 0
        /\ checksum_matches(Append(arg, ret))
        /\ (arg = << 1, 2, 3, 4 >> => ret = 246)
        /\ (arg = << 134, 200, 3, 253 >> => ret = 178)
        /\ (arg = << 220, 4, 3, 30 >> => ret = 255)
        /\ (arg = << 20, 45, 3, 30, 150, 230, 120 >> => ret = 170)
        /\ (arg = << 160, 3, 1, 114 >> => ret = 234)

C1_Witness ==
    /\ fn = "calculate_checksum"
    /\ arg = << 160, 3, 1, 114 >>
    /\ ret = 234

\* C2: for every Command, data of any length, to_bytes returns
\* [0xA0, length, address, opcode, data..., checksum] with checksum the
\* checksum of all preceding bytes and the length byte equal to len(data)+3,
\* the number of bytes that follow the length byte.
C2_ToBytesLengthByteCountsFollowingBytes ==
    fn = "to_bytes" =>
        LET pre == << START_BYTE, Len(arg.data) + 3, arg.address, arg.command >> \o arg.data
        IN  /\ ret = Append(pre, calculate_checksum(pre))
            /\ at(ret, 1) = Len(arg.data) + 3
            /\ at(ret, 1) = Len(ret) - 2

\* A frame from_bytes accepts as framed: start byte and length byte correct.
Framed(data) ==
    /\ Len(data) >= 2
    /\ at(data, 0) = START_BYTE
    /\ at(data, 1) = Len(data) - 2

\* C3: from_bytes on a frame with a correct start byte and length byte whose
\* trailing byte differs from the checksum of the preceding bytes returns an
\* Error::Program value; it does not panic and returns no Response.
C3_BadChecksumReturnsProgramError ==
    (fn = "from_bytes" /\ Framed(arg) /\ ~checksum_matches(arg)) =>
        (ret.tag = "Err" /\ ret.kind = "Program")

NoStatusCommands ==
    { GetFirmwareVersion, GetOutputPower, GetReaderTemperature,
      GetRFPortReturnLoss, GetWorkAntenna, GetAntConnectionDetector }

\* What from_bytes returns when it took the byte after the opcode as a status.
StatusDecoded(data, r) ==
    \/ /\ r.tag = "Ok"
       /\ r.val.status = Some(at(data, 4))
       /\ r.val.data = slice(data, 5, Len(data) - 1)
    \/ /\ r.tag = "Err"
       /\ r.code = Some(at(data, 4))
    \/ /\ r.tag = "Panic"
       /\ Len(data) = 5

\* What from_bytes returns when it took the byte after the opcode as payload.
StatusNotDecoded(data, r) ==
    /\ r.tag = "Ok"
    /\ r.val.status = None
    /\ r.val.data = slice(data, 4, Len(data) - 1)

WellFormed(frame) ==
    /\ Framed(frame)
    /\ Len(frame) >= 5
    /\ checksum_matches(frame)
    /\ at(frame, 3) \in CommandType

\* The call has ended: it returned, or it panicked.
Ended == pc \in { "idle", "panicked" } /\ op # "none"

\* C5: a RealTimeInventory response with length byte 4 (address, opcode,
\* status, checksum) is parsed with the byte after the opcode as its status
\* and an empty payload, so real_time_inventory fails with the error for that
\* status; the byte is never handed to the loop as a 1-byte payload.
C5_FailedInventoryFailsWithItsStatus ==
    (/\ op = "real_time_inventory"
     /\ nread >= 1
     /\ WellFormed(response)
     /\ at(response, 3) = RealTimeInventory
     /\ at(response, 1) = 4
     /\ at(response, 4) \in ResponseCode \ { Success }) =>
        /\ (packet.tag = "Ok" => packet.val.data = << >>)
        /\ pc # "received"
        /\ (Ended => (result.tag = "Err" /\ result.code = Some(at(response, 4))))

\* C6: a frame with a valid checksum, the opcode of the request and a known
\* status other than Success makes the exchange fail with an Error of kind
\* Protocol carrying that ResponseCode, and the command is not sent again.
C6_FailureStatusIsProtocolError ==
    (/\ op = "reset"
     /\ Ended
     /\ nread >= 1
     /\ WellFormed(response)
     /\ Len(response) >= 6
     /\ at(response, 3) = command_type
     /\ at(response, 4) \in ResponseCode \ { Success }) =>
        /\ result.tag = "Err"
        /\ result.kind = "Protocol"
        /\ result.code = Some(at(response, 4))
        /\ Len(written) = 1

\* C7: when the first Read response received carries NoTagError, read ends
\* its loop and returns Ok with zero ReadResults, not an error.
C7_NoTagEndsReadWithNoResults ==
    (/\ op = "read"
     /\ Ended
     /\ nread = 1
     /\ WellFormed(response)
     /\ at(response, 3) = Read
     /\ Len(response) >= 6
     /\ at(response, 4) = NoTagError) =>
        result = Ok(<< >>)

\* The chunks of the stream that are frames with a correct checksum.
ValidFrames == StreamChunks \ { StrayByte, BadChecksumFrame }

\* The stream opens with n stray bytes followed by a valid frame.
StrayThenFrame(n) ==
    /\ n < Len(script)
    /\ \A i \in 1 .. n : script[i] = StrayByte
    /\ script[n + 1] \in ValidFrames

\* C8: on a stream of N bytes other than 0xA0, then a valid frame, then any
\* further bytes, receive_packet returns what that frame decodes to and has
\* consumed exactly the N bytes and the frame (declared length + 2 bytes);
\* every later byte is left unread.
C8_ResyncReturnsFirstFrame ==
    \A n \in 0 .. MaxChunks :
        StrayThenFrame(n) =>
            LET f == script[n + 1]
            IN  /\ (Ended => nread >= 1)
                /\ (nread = 1 /\ pc = "from_bytes") =>
                      (response = f /\ pos = n + at(f, 1) + 2)
                /\ (nread = 1 /\ pc = "receive") =>
                      (packet = from_bytes(f) /\ packet.tag = "Ok" /\ pos = n + at(f, 1) + 2)
                /\ (nread = 1 /\ Ended /\ packet.tag # "Ok") =>
                      (result = from_bytes(f) /\ packet = result /\ pos = n + at(f, 1) + 2)

C8_Witness ==
    /\ script = << StrayByte, VersionFrame, TagFrameA >>
    /\ nread = 1
    /\ pc = "receive"
    /\ packet = Ok([address |-> 1, command |-> GetFirmwareVersion, status |-> None,
                    data |-> << 1, 2 >>])
    /\ pos = 1 + Len(VersionFrame)

\* The stream opens with k well-formed frames of other command types than
\* the awaited one, followed by a well-formed frame of the awaited type.
MismatchedThenMatching(k) ==
    /\ k < Len(script)
    /\ \A i \in 1 .. k : WellFormed(script[i]) /\ at(script[i], 3) # command_type
    /\ WellFormed(script[k + 1])
    /\ at(script[k + 1], 3) = command_type

\* C9: receive(c) on any number of well-formed frames of other opcodes,
\* whatever their status byte, followed by a well-formed frame of opcode c,
\* drops every one of the former and returns the latter; a frame of another
\* opcode never makes receive fail and is never returned.
C9_MismatchedFramesNeverFailReceive ==
    \A k \in 0 .. MaxChunks :
        (op # "none" /\ MismatchedThenMatching(k)) =>
            /\ (Ended => nread >= k + 1)
            /\ (pc = "received" /\ nread <= k + 1) => response = script[k + 1]

\* The bytes of a frame between the opcode and the checksum.
BodyOf(frame) == SubSeq(frame, 5, Len(frame) - 1)

TagFrames == { TagFrameA, TagFrameB }

\* The stream opens with k tag frames followed by the 7-byte summary frame.
TagsThenSummary(k) ==
    /\ k < Len(script)
    /\ \A i \in 1 .. k : script[i] \in TagFrames
    /\ script[k + 1] = SummaryFrame

\* The tag record of a tag frame: top 6 bits of the first byte the frequency
\* index, bottom 2 bits the antenna, 2 bytes PC, the EPC, the RSSI last.
TagRecord(frame) ==
    LET p == BodyOf(frame)
    IN  [frequency |-> convert_to_frequency(p[1] \div 4),
         antenna |-> p[1] % 4,
         pc |-> << p[2], p[3] >>,
         epc |-> SubSeq(p, 4, Len(p) - 1),
         rssi |-> convert_rssi(p[Len(p)])]

\* C10: real_time_inventory fed k tag frames (payload of 8 bytes or more)
\* and then a frame with a 7-byte payload returns an InventoryResult with
\* exactly the k tag records in arrival order and antenna, read_rate,
\* total_read the first byte, the next two (big-endian) and the last four
\* (big-endian, as two 16-bit halves) bytes of that payload; it returns nothing before the short
\* frame is read and reads no byte after it.
C10_InventoryReturnsItemsAndSummary ==
    \A k \in 0 .. MaxChunks :
        (op = "real_time_inventory" /\ TagsThenSummary(k)) =>
            LET p == BodyOf(script[k + 1])
                end == Len(Flatten(SubSeq(script, 1, k + 1)))
            IN  /\ pc # "panicked"
                /\ pos <= end
                /\ nread <= k + 1
                /\ Len(tags) <= k
                /\ pc = "idle" =>
                      /\ nread = k + 1
                      /\ pos = end
                      /\ result =
                            Ok([items |-> [i \in 1 .. k |-> TagRecord(script[i])],
                                antenna |-> p[1],
                                read_rate |-> p[2] * 256 + p[3],
                                total_read |-> [hi |-> p[4] * 256 + p[5],
                                                lo |-> p[6] * 256 + p[7]]])

C10_Witness ==
    /\ script = << TagFrameA, TagFrameB, SummaryFrame >>
    /\ op = "real_time_inventory"
    /\ pc = "idle"
    /\ result.tag = "Ok"
    /\ Len(result.val.items) = 2
    /\ result.val.items[1].epc = << 226, 0, 17, 34 >>
    /\ result.val.items[2].antenna = 2
    /\ result.val.read_rate = 300
    /\ result.val.total_read = [hi |-> 1, lo |-> 2]

\* C11: in every Response the parser returns, address is byte 2 of the frame
\* and command byte 3, the status (when one is decoded) is byte 4, and the
\* payload is exactly the bytes after the opcode (after the status byte when
\* one is decoded) up to but excluding the checksum byte, so its length is the
\* declared length - 3 - (1 if a status is present); the firmware-version
\* reply [0xA0, 0x05, 0x01, 0x72, 0x01, 0x02, checksum] is parsed with no
\* status and payload [1, 2], and get_version returns (1, 2).
C11_PayloadIsBytesBetweenOpcodeAndChecksum ==
    /\ (nread >= 1 /\ pc # "from_bytes" /\ packet.tag = "Ok") =>
          LET r == packet.val
              s == Len(r.status)
          IN  /\ r.address = response[3]
              /\ r.command = response[4]
              /\ s \in { 0, 1 }
              /\ (s = 1 => r.status[1] = response[5])
              /\ r.data = SubSeq(response, 5 + s, Len(response) - 1)
              /\ Len(r.data) = response[2] - 3 - s
    /\ (/\ op = "get_version"
        /\ nread >= 1
        /\ pc \notin { "from_bytes", "receive", "received" }
        /\ response = << 160, 5, 1, 114, 1, 2, calculate_checksum(<< 160, 5, 1, 114, 1, 2 >>) >>) =>
          /\ packet.tag = "Ok"
          /\ packet.val.status = None
          /\ packet.val.data = << 1, 2 >>
          /\ result = Ok(<< 1, 2 >>)

C11_Witness ==
    /\ op = "get_version"
    /\ pc = "idle"
    /\ response = << 160, 5, 1, 114, 1, 2, 229 >>
    /\ packet.val.status = None
    /\ result = Ok(<< 1, 2 >>)

\* The first call timed out inside the first frame of the stream, the
\* transport has since delivered the rest of that frame and what follows it,
\* and what follows it is an intact frame answering the second call.
TruncatedThenIntact ==
    /\ Len(script) >= 2
    /\ Len(written) = 2
    /\ written[2].pos >= 2
    /\ written[2].pos < Len(script[1])
    /\ written[2].avail = Len(port)
    /\ WellFormed(script[2])
    /\ at(script[2], 3) = command_type
    /\ from_bytes(script[2]).tag = "Ok"

\* C12: after a call timed out part-way through a frame whose unread rest
\* (any byte values, 0xA0 included) is delivered later, the next call, whose
\* matching response arrives intact, receives exactly that response: it finds
\* its start byte at the first byte of the intact frame, it does not fail or
\* panic before it has received that frame, and the first frame it receives
\* is that frame.
C12_TruncatedFrameDoesNotDisturbNextCall ==
    TruncatedThenIntact =>
        /\ pc # "panicked"
        /\ (Ended => nread >= 1)
        /\ (nread = 0 /\ pc = "read_len") => pos = Len(script[1]) + 1
        /\ (pc = "received" /\ tags = << >> /\ results = << >>) =>
              (response = script[2] /\ pos = Len(script[1]) + Len(script[2]))

\* The case of C12 in which the rest of the truncated frame holds no 0xA0:
\* the second call receives the intact frame.
C12_Recovered ==
    /\ TruncatedThenIntact
    /\ script = << TagFrameA, VersionFrame >>
    /\ op = "get_version"
    /\ pc = "idle"
    /\ result = Ok(<< 1, 2 >>)

\* C13: from_bytes on a frame with correct framing and checksum returns an
\* error value (no Response, no panic) when the opcode byte is no
\* discriminant of CommandType, and when a status byte is expected and its
\* value is no discriminant of ResponseCode; a defined opcode byte with no
\* status, or with status Success, is decoded to a Response whose command is
\* the variant with that byte value.
C13_UnknownOpcodeOrStatusIsParseError ==
    (fn = "from_bytes" /\ Framed(arg) /\ Len(arg) >= 5 /\ checksum_matches(arg)) =>
        LET c == at(arg, 3)
            expected == c \in CommandType /\ command_has_response_code(c, Len(arg))
        IN  /\ (c \notin CommandType => ret.tag = "Err")
            /\ (expected /\ Len(arg) >= 6 /\ at(arg, 4) \notin ResponseCode) =>
                  (ret.tag = "Err" /\ ret.code = Some(at(arg, 4)))
            /\ (c \in CommandType /\ ret.tag = "Ok") => ret.val.command = c
            /\ (c \in CommandType /\ ~expected) => ret.tag = "Ok"
            /\ (expected /\ Len(arg) >= 6 /\ at(arg, 4) = Success) => ret.tag = "Ok"

C13_Witness ==
    /\ fn = "from_bytes"
    /\ arg = DeviceFrame(1, UnknownOpcode, << Success >>)
    /\ UnknownOpcode \notin CommandType
    /\ ret.tag = "Err"
    /\ ret.code = Some(UnknownOpcode)

\* A byte sequence that violates the framing rules: it does not open with
\* the start byte, its length byte is not the number of bytes that follow
\* it, or it is too short to hold address, opcode and checksum (and the
\* status byte, when its opcode carries one).
Misframed(data) ==
    \/ ~Framed(data)
    \/ Len(data) < 5
    \/ /\ Len(data) = 5
       /\ at(data, 3) \in CommandType
       /\ command_has_response_code(at(data, 3), Len(data))

\* C14: from_bytes returns an error value, and does not panic or index out
\* of bounds, for every byte sequence that violates the framing rules,
\* including a short frame whose trailing byte is a correct checksum.
C14_MisframedInputReturnsError ==
    (fn = "from_bytes" /\ Misframed(arg)) => ret.tag = "Err"

\* C15: for every raw byte r, convert_to_frequency(r) is 865.0 + 0.5 * r
\* when r < 7 and 902.0 + 0.5 * (r - 7) otherwise, that is 1730 + r and
\* 1804 + (r - 7) half-MHz (a half MHz is 4 eighths); 5 -> 867.5,
\* 7 -> 902.0, 14 -> 905.5, 22 -> 909.5, 48 -> 922.5, 59 -> 928.0.
C15_ConvertToFrequencyTable ==
    fn = "convert_to_frequency" =>
        /\ (arg < 7 => ret = 4 * (1730 + arg))
        /\ (arg >= 7 => ret = 4 * (1804 + (arg - 7)))
        /\ (arg = 5 => 10 * ret = 8 * 8675)
        /\ (arg = 7 => ret = 8 * 902)
        /\ (arg = 14 => 10 * ret = 8 * 9055)
        /\ (arg = 22 => 10 * ret = 8 * 9095)
        /\ (arg = 48 => 10 * ret = 8 * 9225)
        /\ (arg = 59 => ret = 8 * 928)

C15_Witness ==
    /\ fn = "convert_to_frequency"
    /\ arg = 59
    /\ ret = 8 * 928

\* C16: convert_from_frequency(f) succeeds exactly when 865 <= f <= 868 or
\* 902 <= f <= 928, with floor((f - 865) / 0.5) in the first band and
\* floor((f - 902) / 0.5) + 7 in the second (never above 59), and is an
\* invalid-frequency Program error for every other f; measure_return_loss
\* then returns that error and sends no command, and otherwise sends one
\* GetRFPortReturnLoss command whose data is the index. 867.5 -> 5,
\* 909.5 -> 22, 922.5 -> 48, 928.0 -> 59.
C16_ConvertFromFrequencyBandsAndTruncation ==
    op = "measure_return_loss" =>
        LET f == frequency
            low == 8 * 865 <= f /\ f <= 8 * 868
            high == 8 * 902 <= f /\ f <= 8 * 928
        IN  /\ (low \/ high) =>
                  /\ Len(written) = 1
                  /\ Len(written[1].bytes) = 6
                  /\ written[1].bytes[4] = GetRFPortReturnLoss
                  /\ LET index == written[1].bytes[5]
                     IN  /\ index \in 0 .. 59
                         /\ low => (4 * index <= f - 8 * 865 /\ f - 8 * 865 < 4 * (index + 1))
                         /\ high => (4 * (index - 7) <= f - 8 * 902
                                     /\ f - 8 * 902 < 4 * (index - 7 + 1))
                         /\ (10 * f = 8 * 8675 => index = 5)
                         /\ (10 * f = 8 * 9095 => index = 22)
                         /\ (10 * f = 8 * 9225 => index = 48)
                         /\ (f = 8 * 928 => index = 59)
            /\ ~(low \/ high) =>
                  /\ written = << >>
                  /\ pos = 0
                  /\ pc = "idle"
                  /\ result.tag = "Err"
                  /\ result.kind = "Program"
                  /\ result.msg = "Invalid frequency"

C16_Witness ==
    /\ op = "measure_return_loss"
    /\ frequency = 8 * 860
    /\ written = << >>
    /\ result.tag = "Err"

\* The 0.5 MHz grid points of the two bands.
OnGrid(f) ==
    \/ \E i \in 0 .. 6 : f = 8 * 865 + 4 * i
    \/ \E i \in 0 .. 52 : f = 8 * 902 + 4 * i

\* C17: for every f on the 0.5 MHz grid in [865, 868] or [902, 928],
\* convert_to_frequency(convert_from_frequency(f)) = f; for every raw index
\* r in 0..59, convert_from_frequency(convert_to_frequency(r)) = r; and for
\* every r from 60 on, convert_from_frequency rejects convert_to_frequency(r).
C17_FrequencyRoundTrip ==
    /\ (fn = "convert_from_frequency" /\ OnGrid(arg)) =>
          (ret.tag = "Ok" /\ convert_to_frequency(ret.val) = arg)
    /\ (fn = "convert_to_frequency" /\ arg <= 59) =>
          convert_from_frequency(ret) = Ok(arg)
    /\ (fn = "convert_to_frequency" /\ arg >= 60) =>
          convert_from_frequency(ret).tag = "Err"

C17_Witness ==
    /\ fn = "convert_from_frequency"
    /\ arg = 8 * 909 + 4
    /\ ret = Ok(22)
    /\ convert_to_frequency(22) = arg

\* C18: for every raw byte r, convert_rssi(r) is the integer r - 129 when
\* r > 89 and the integer r - 130 when r <= 89, a value of -128..127 reached
\* without wraparound.
C18_ConvertRssiIsExactDifference ==
    fn = "convert_rssi" =>
        /\ ret = (IF arg > 89 THEN arg - 129 ELSE arg - 130)
        /\ (IF arg > 89 THEN arg - 129 ELSE arg - 130) \in -128 .. 127

\* C19: InventoryItem::from_bytes on a payload p of n >= 4 bytes gives
\* frequency = convert_to_frequency(top 6 bits of p[0]), antenna = bottom 2
\* bits of p[0] (0..3), pc = [p[1], p[2]], epc = p[3] .. p[n-2] (n - 4 bytes,
\* in order) and rssi = convert_rssi(p[n-1]): every byte of the payload goes
\* to exactly one field.
C19_InventoryItemFieldsPartitionPayload ==
    (fn = "InventoryItem_from_bytes" /\ Len(arg) >= 4) =>
        LET n == Len(arg)
        IN  /\ ret.tag = "Ok"
            /\ ret.val.frequency = convert_to_frequency(arg[1] \div 4)
            /\ ret.val.antenna = arg[1] % 4
            /\ ret.val.antenna \in 0 .. 3
            /\ 4 * (arg[1] \div 4) + ret.val.antenna = arg[1]
            /\ ret.val.pc = << arg[2], arg[3] >>
            /\ Len(ret.val.epc) = n - 4
            /\ \A i \in 1 .. n - 4 : ret.val.epc[i] = arg[3 + i]
            /\ ret.val.rssi = convert_rssi(arg[n])
            /\ << arg[1] >> \o ret.val.pc \o ret.val.epc \o << arg[n] >> = arg

C19_Witness ==
    /\ fn = "InventoryItem_from_bytes"
    /\ arg = << 130, 3, 0, 255, 130 >>
    /\ ret.tag = "Ok"
    /\ ret.val.antenna = 2
    /\ ret.val.frequency = convert_to_frequency(32)
    /\ ret.val.epc = << 255 >>
    /\ ret.val.rssi = 1

\* C20: InventoryItem::from_bytes on a payload of fewer than 4 bytes, the
\* empty payload included, returns an error value and does not panic.
C20_ShortItemPayloadReturnsError ==
    (fn = "InventoryItem_from_bytes" /\ Len(arg) < 4) => ret.tag = "Err"

\* The tag count a Read reply declares.
TagCountOf(frame) == frame[6] * 256 + frame[7]

\* C21: read returns successfully exactly when the number of results decoded
\* so far equals the tag_count declared in the first successful Read reply
\* of the call: it stops there whatever tag_count the later replies declare,
\* it does not stop before, and the vector returned holds exactly that many
\* results, in arrival order.
C21_ReadStopsAtFirstTagCount ==
    (/\ op = "read"
     /\ script # << >>
     /\ \A i \in 1 .. Len(script) : script[i] \in ReadFrames) =>
        LET n == TagCountOf(script[1])
        IN  /\ Len(results) <= n
            /\ (Len(results) = n) => (pc = "idle" /\ result = Ok(results))
            /\ (Ended /\ result.tag = "Ok") =>
                  /\ Len(result.val) = n
                  /\ \A i \in 1 .. n : result.val[i] = SubSeq(script[i], 8, Len(script[i]) - 1)

\* A step in which the caller's next call starts.
CallStarts == plan' # plan

\* The step writes one command frame of the operation called, having read
\* nothing in this call: the frame is appended at the read position the call
\* started from.
WritesOneFrame ==
    /\ Len(written') = Len(written) + 1
    /\ SubSeq(written', 1, Len(written)) = written
    /\ LET w == written'[Len(written')]
       IN  /\ Framed(w.bytes)
           /\ w.bytes[4] = command_type'
           /\ w.pos = pos
    /\ pos' = pos

\* C22 as stated: every call writes exactly one command frame, before reading
\* any byte, and no step of the receive path (start-byte scan, mismatched-frame
\* drop, error return, streaming loop) writes to the transport.
C22_EveryCallWritesExactlyOneFrame ==
    [][ /\ CallStarts => WritesOneFrame
        /\ ~CallStarts => written' = written ]_vars

\* C22, amended: every call writes at most one command frame, exactly one
\* unless it rejects its arguments before sending (measure_return_loss with a
\* frequency outside the bands returns the error and writes nothing); the
\* frame is written before any byte is read, and no step of the receive path
\* writes to the transport.
C22_EveryCallWritesAtMostOneFrame ==
    [][ /\ CallStarts =>
              IF op' = "measure_return_loss" /\ convert_from_frequency(frequency).tag # "Ok"
              THEN /\ written' = written
                   /\ pos' = pos
                   /\ pc' = "idle"
                   /\ result' = convert_from_frequency(frequency)
              ELSE WritesOneFrame
        /\ ~CallStarts => written' = written ]_vars

\* measure_return_loss rejected its frequency and wrote nothing; the next call,
\* get_version, wrote its one frame, dropped a frame of another command type
\* and returned the version.
C22_Witness ==
    /\ plan = << >>
    /\ pc = "idle"
    /\ op = "get_version"
    /\ frequency = MHz(860)
    /\ Len(written) = 1
    /\ written[1].bytes[4] = GetFirmwareVersion
    /\ nread >= 2
    /\ result.tag = "Ok"

\* C23: every call terminates by returning a result or an error: with a finite
\* sequence of bytes delivered and a read timeout after them, a call that has
\* been made returns Ok or Err.
C23_EveryCallReturns ==
    (pc # "idle") ~> (pc = "idle" /\ result.tag \in { "Ok", "Err" })

\* What does hold of every call: it ends, by returning or by panicking.
EveryCallEnds == (pc # "idle") ~> Ended

\* The second call is running after a streaming first call (real_time_inventory
\* or read) ended with an error.
AfterFailedStream ==
    /\ Len(written) = 2
    /\ written[1].bytes[4] \in { RealTimeInventory, Read }
    /\ pc \notin { "idle", "panicked" }
    /\ result.tag = "Err"

\* C24: after a streaming call ended with an error, no frame of its reply
\* stream (a frame of its opcode that was already in the transport when the
\* following call wrote its command, so that the device emitted it for the
\* earlier request) is handed to the following call's operation: every frame
\* of that opcode that receive returns to it started after that point.
C24_NoStaleFrameReachesNextCall ==
    (AfterFailedStream /\ pc = "received" /\ response[4] = written[1].bytes[4]) =>
        pos - Len(response) >= written[2].avail

=============================================================================
